---- MODULE Spec2Model ----
(***************************************************************************)
(* A model of the cookie-consent manager (lib/cookie-consent.ts), of the   *)
(* hooks useCookieConsent and useConsentFor (hooks/use-cookie-consent.ts)  *)
(* and of the browser objects they act on: localStorage, which may raise,  *)
(* the window's event listeners, the document's injected scripts and the   *)
(* vendors' global handles.  One action is one call of a public function;  *)
(* what the call did, in order, is kept in lastOp.log.                     *)
(***************************************************************************)
EXTENDS Integers, Sequences, FiniteSets, TLC

VARIABLES
  config,        \* the module-level `config` object
  storage,       \* the localStorage entry under the storage key
  now,           \* Date.now(), in milliseconds counted from the first page load
  scripts,       \* per vendor, the number of its script elements in the document
  globals,       \* the vendor handles that are set (truthy) on window
  adsConfigured, \* whether gtag("config", <Google Ads id>) has been called
  listeners,     \* per event type, the window's listeners in registration order
  hooks,         \* per component slot, the state of the hook mounted in it
  failing,       \* the localStorage methods that raise when called
  window,        \* whether the code runs where `window` is defined
  lastOp         \* the call that has just returned: its name, arguments, result, log

vars == <<config, storage, now, scripts, globals, adsConfigured, listeners,
          hooks, failing, window, lastOp>>

(***************************** bounds **************************************)

MaxTicks == 3         \* the clock stops after this many half days
MaxExpireDays == 1    \* the largest configured expireDays
MaxSubs == 2          \* the most handlers subscribed at once
MaxScripts == 2       \* the most script elements one vendor gets
MaxHooks == 2         \* the most hook instances mounted at once

(************************** preference schema ******************************)

Keys == {"essential", "analytics", "functional", "marketing", "performance",
         "personalization"}

defaultCategories ==
  << [key |-> "essential", required |-> TRUE],
     [key |-> "analytics", required |-> FALSE],
     [key |-> "functional", required |-> FALSE],
     [key |-> "marketing", required |-> FALSE],
     [key |-> "performance", required |-> FALSE],
     [key |-> "personalization", required |-> FALSE] >>

DEFAULT_VERSION == "1.0"

defaultPreferences == [k \in Keys |-> k = "essential"]

Undefined == [tag |-> "undefined"]
Null == [tag |-> "null"]

\* JavaScript truthiness of preferences[k]: a missing key reads undefined.
Truthy(preferences, k) == k \in DOMAIN preferences /\ preferences[k] = TRUE

Range(s) == {s[i] : i \in 1..Len(s)}

(****************************** vendors ************************************)

AnalyticsVendors ==
  <<"googleAnalytics", "googleTagManager", "segment", "mixpanel", "amplitude">>
MarketingVendors ==
  <<"googleAds", "facebookPixel", "tiktokPixel", "linkedinInsight",
    "pinterestTag", "snapchatPixel", "twitter">>
PerformanceVendors == <<"hotjar", "clarity">>
FunctionalVendors == <<"hubspot", "intercom", "crisp">>

Vendors == Range(AnalyticsVendors) \cup Range(MarketingVendors)
             \cup Range(PerformanceVendors) \cup Range(FunctionalVendors)

\* The category whose block of initializeIntegrations calls the vendor.
Governing(v) ==
  IF v \in Range(AnalyticsVendors) THEN "analytics"
  ELSE IF v \in Range(MarketingVendors) THEN "marketing"
  ELSE IF v \in Range(PerformanceVendors) THEN "performance"
  ELSE "functional"

(************************* configuration ***********************************)

\* getCategories: config.categories || defaultCategories
getCategories ==
  IF config.categories.defined THEN config.categories.list ELSE defaultCategories

\* config.consentVersion || DEFAULT_VERSION ("" stands for a version that is
\* not given: both are falsy)
ConsentVersion ==
  IF config.consentVersion = "" THEN DEFAULT_VERSION ELSE config.consentVersion

\* config.expireDays * 24 * 60 * 60 * 1000
MsPerDay == 24 * 60 * 60 * 1000
ExpireMs == config.expireDays * MsPerDay
TickMs == MsPerDay \div 2

RequiredKeys ==
  {getCategories[i].key : i \in {j \in 1..Len(getCategories) : getCategories[j].required}}

(************************ the persisted value ******************************)

NoItem == [tag |-> "none"]

\* A stored text that JSON.parse rejects.
Garbage == [tag |-> "garbage"]

\* JSON.stringify gone wrong: only the granted keys are written.
JSONstringifyGrantedOnly(data) ==
  [tag |-> "json",
   entries |-> {<<k, TRUE>> : k \in {j \in DOMAIN data.preferences :
                                        data.preferences[j]}},
   timestamp |-> data.timestamp,
   version |-> data.version]

\* JSON.stringify of a ConsentData: the text holds one entry per key of
\* preferences, the timestamp and the version.
JSONstringify(data) ==
  [tag |-> "json",
   entries |-> {<<k, data.preferences[k]>> : k \in DOMAIN data.preferences},
   timestamp |-> data.timestamp,
   version |-> data.version]

\* A stored text that parses to an object with the default version and
\* nothing else: no preferences, no timestamp.
VersionOnly == [tag |-> "versionOnly", version |-> DEFAULT_VERSION]

\* JSON.parse of a text that parses (a text that does not has tag "garbage").
JSONparse(text) ==
  IF text.tag = "json"
    THEN [preferences |->
            [k \in {e[1] : e \in text.entries} |->
               CHOOSE b \in BOOLEAN : <<k, b>> \in text.entries],
          timestamp |-> text.timestamp,
          version |-> text.version]
    ELSE [version |-> text.version]

(************************ the running call *********************************)

\* The mutable browser state a call threads through its statements, with the
\* log of what it has done so far.
Machine ==
  [storage |-> storage, scripts |-> scripts, globals |-> globals,
   adsConfigured |-> adsConfigured, listeners |-> listeners, hooks |-> hooks,
   raised |-> FALSE, log |-> << >>]

Log(m, entry) == [m EXCEPT !.log = Append(@, entry)]

\* A statement raises: the call is left at this point unless a catch
\* encloses it.
Raise(m, by) == Log([m EXCEPT !.raised = TRUE], [t |-> "throw", by |-> by])

\* The catch block of a try that encloses the statement that raised.
Caught(m) == [m EXCEPT !.raised = FALSE]

\* What localStorage.getItem gives when it raises instead of returning.
Thrown == [tag |-> "thrown"]

\* setItem gone wrong: a key that the stored record grants stays granted in
\* the record written over it.
setItemMerging(m, text) ==
  LET kept == IF m.storage.tag = "json"
                THEN {e[1] : e \in {f \in m.storage.entries : f[2]}} ELSE {}
      merged == [text EXCEPT !.entries =
                   {<<e[1], e[2] \/ e[1] \in kept>> : e \in text.entries}]
  IN  Log([m EXCEPT !.storage = merged], [t |-> "setItem", value |-> merged])

setItem(m, text) ==
  IF "setItem" \in failing THEN Raise(m, "setItem")
  ELSE Log([m EXCEPT !.storage = text], [t |-> "setItem", value |-> text])

removeItem(m) ==
  IF "removeItem" \in failing THEN Raise(m, "removeItem")
  ELSE Log([m EXCEPT !.storage = NoItem], [t |-> "removeItem"])

\* getConsent gone wrong: a record of another version is reported absent but
\* left in storage.
getConsentKeepStale(m0) ==
  LET stored == m0.storage
      m == Log(m0, [t |-> "getItem", value |-> stored])
  IN  IF stored.tag = "none" THEN [m |-> m, ret |-> Null]
      ELSE IF stored.tag # "json" THEN [m |-> m, ret |-> Null]
      ELSE LET data == JSONparse(stored) IN
           IF data.version # ConsentVersion
             THEN [m |-> m, ret |-> Null]
           ELSE IF config.expireDays # 0 /\ now - data.timestamp > ExpireMs
             THEN [m |-> removeItem(m), ret |-> Null]
           ELSE [m |-> m, ret |-> data]

\* getConsent gone wrong: a record expires when its age reaches the window.
getConsentExpireAtWindow(m0) ==
  LET stored == m0.storage
      m == Log(m0, [t |-> "getItem", value |-> stored])
  IN  IF stored.tag = "none" THEN [m |-> m, ret |-> Null]
      ELSE IF stored.tag # "json" THEN [m |-> m, ret |-> Null]
      ELSE LET data == JSONparse(stored) IN
           IF data.version # ConsentVersion
             THEN [m |-> removeItem(m), ret |-> Null]
           ELSE IF config.expireDays # 0 /\ now - data.timestamp >= ExpireMs
             THEN [m |-> removeItem(m), ret |-> Null]
           ELSE [m |-> m, ret |-> data]

\* getConsent gone wrong: the age is compared with the window also when
\* expireDays is not configured, and a record expires when its age reaches
\* the window.
getConsentEagerExpiry(m0) ==
  LET stored == m0.storage
      m == Log(m0, [t |-> "getItem", value |-> stored])
  IN  IF stored.tag = "none" THEN [m |-> m, ret |-> Null]
      ELSE IF stored.tag # "json" THEN [m |-> m, ret |-> Null]
      ELSE LET data == JSONparse(stored) IN
           IF data.version # ConsentVersion
             THEN [m |-> removeItem(m), ret |-> Null]
           ELSE IF config.expireDays = 0 /\ now - data.timestamp > ExpireMs
             THEN [m |-> removeItem(m), ret |-> Null]
           ELSE IF config.expireDays # 0 /\ now - data.timestamp >= ExpireMs
             THEN [m |-> removeItem(m), ret |-> Null]
           ELSE [m |-> m, ret |-> data]

\* getConsent gone wrong: the removal of a stale or expired record is
\* announced as a reset.
getConsentAnnouncing(m0) ==
  LET stored == m0.storage
      m == Log(m0, [t |-> "getItem", value |-> stored])
      purged == Log(Log(removeItem(m),
                        [t |-> "dispatchEvent", type |-> "cookieConsentReset",
                         detail |-> Null]),
                    [t |-> "onConsentRevoked"])
  IN  IF stored.tag = "none" THEN [m |-> m, ret |-> Null]
      ELSE IF stored.tag # "json" THEN [m |-> m, ret |-> Null]
      ELSE LET data == JSONparse(stored) IN
           IF data.version # ConsentVersion
             THEN [m |-> purged, ret |-> Null]
           ELSE IF config.expireDays # 0 /\ now - data.timestamp > ExpireMs
             THEN [m |-> purged, ret |-> Null]
           ELSE [m |-> m, ret |-> data]

\* getConsent gone wrong: a read of a valid record writes it back with the
\* time of the read, so that the expiry window runs from the last read.
getConsentRefreshing(m0) ==
  LET stored == m0.storage
      m == Log(m0, [t |-> "getItem", value |-> stored])
  IN  IF stored.tag = "none" THEN [m |-> m, ret |-> Null]
      ELSE IF stored.tag # "json" THEN [m |-> m, ret |-> Null]
      ELSE LET data == JSONparse(stored) IN
           IF data.version # ConsentVersion
             THEN [m |-> removeItem(m), ret |-> Null]
           ELSE IF config.expireDays # 0 /\ now - data.timestamp > ExpireMs
             THEN [m |-> removeItem(m), ret |-> Null]
           ELSE [m |-> [m EXCEPT !.storage = [stored EXCEPT !.timestamp = now]],
                 ret |-> data]

\* getConsent: the machine after the call and the value returned: null at
\* once where there is no window.  The
\* whole body is in a try whose catch returns null: a getItem, a JSON.parse
\* or a removeItem that raises ends the call there.  A parsed object without
\* a timestamp makes the age NaN, which is not greater than the window.
getConsent(m0) ==
  IF ~window THEN [m |-> m0, ret |-> Null]
  ELSE IF "getItem" \in failing
    THEN [m |-> Log(m0, [t |-> "getItem", value |-> Thrown]), ret |-> Null]
  ELSE
  LET stored == m0.storage
      m == Log(m0, [t |-> "getItem", value |-> stored])
  IN  IF stored.tag = "none" THEN [m |-> m, ret |-> Null]
      ELSE IF stored.tag = "garbage" THEN [m |-> m, ret |-> Null]
      ELSE LET data == JSONparse(stored) IN
           IF data.version # ConsentVersion
             THEN [m |-> Caught(removeItem(m)), ret |-> Null]
           ELSE IF /\ config.expireDays # 0
                   /\ "timestamp" \in DOMAIN data
                   /\ now - data.timestamp > ExpireMs
             THEN [m |-> Caught(removeItem(m)), ret |-> Null]
           ELSE [m |-> m, ret |-> data]

\* A JavaScript boolean, where undefined may stand in its place.
Boolean(b) == [tag |-> "boolean", value |-> b]

\* preferences[k], undefined when the object has no such key.
Lookup(preferences, k) ==
  IF k \in DOMAIN preferences THEN Boolean(preferences[k]) ELSE Undefined

\* data.preferences, undefined when the object has no such field.
PreferencesOf(data) ==
  IF "preferences" \in DOMAIN data THEN data.preferences ELSE Undefined

\* A component slot in which no hook is mounted.
NoHook == [kind |-> "none"]

\* The callback useCookieConsent passes to onConsentChange:
\* setPreferences(data.preferences); setHasConsent(true).
useCookieConsentHandler(m, i, data) ==
  Log([m EXCEPT !.hooks[i] = [@ EXCEPT !.preferences = data.preferences,
                                       !.hasConsent = TRUE]],
      [t |-> "setState", h |-> i])

\* The callback useConsentFor passes to onConsentChange:
\* setGranted(data.preferences[category]).
useConsentForHandler(m, i, data) ==
  Log([m EXCEPT !.hooks[i] =
         [@ EXCEPT !.granted =
                     Lookup(data.preferences, m.hooks[i].category)]],
      [t |-> "setState", h |-> i])

\* window.addEventListener("cookieConsentUpdate", handler)
addListener(m, h) ==
  [m EXCEPT !.listeners["cookieConsentUpdate"] = Append(@, h)]

\* window.removeEventListener("cookieConsentUpdate", handler)
removeListener(m, h) ==
  [m EXCEPT !.listeners["cookieConsentUpdate"] = SelectSeq(@, LAMBDA g : g # h)]

\* The callback of handler h has been entered with the event's detail.
Entered(m, h, type, detail) ==
  Log(m, [t |-> "callback", h |-> h.id, type |-> type, detail |-> detail,
          saw |-> Undefined])

\* What a "resaver" callback saves when the record it is given grants
\* analytics: the same preferences with analytics denied.
WithoutAnalytics(preferences) ==
  [k \in DOMAIN preferences |-> IF k = "analytics" THEN FALSE
                                 ELSE preferences[k]]

RECURSIVE saveConsent(_, _)

\* A listener registered by onConsentChange calls its callback with the
\* event's detail.  The callbacks a caller may pass: a "reader" reads the
\* store; a "once" calls the unsubscribe function it got from
\* onConsentChange; a "canceller" calls the unsubscribe functions of all the
\* other handlers; a "resaver" calls saveConsent when the record it is given
\* grants analytics.  A hook's callback sets the hook's state.
RunHandler(m, h, type, detail) ==
  CASE h.kind = "reader" ->
         LET r == getConsent(m) IN
           Log([r.m EXCEPT !.log = m.log],
               [t |-> "callback", h |-> h.id, type |-> type,
                detail |-> detail, saw |-> r.ret])
    [] h.kind = "once" -> removeListener(Entered(m, h, type, detail), h)
    [] h.kind = "canceller" ->
         [Entered(m, h, type, detail)
            EXCEPT !.listeners["cookieConsentUpdate"] =
                     SelectSeq(@, LAMBDA g : g = h)]
    [] h.kind = "resaver" ->
         IF Truthy(detail.preferences, "analytics")
           THEN saveConsent(Entered(m, h, type, detail),
                            WithoutAnalytics(detail.preferences))
           ELSE Entered(m, h, type, detail)
    [] h.kind = "useCookieConsent" -> useCookieConsentHandler(m, h.id, detail)
    [] h.kind = "useConsentFor" -> useConsentForHandler(m, h.id, detail)

\* The dispatch gone wrong: the handlers are taken one by one from the list
\* as it is at that moment, so that a handler removed during the dispatch
\* shifts the ones after it.
RECURSIVE DeliverLive(_, _, _, _, _)
DeliverLive(m, hs, i, type, detail) ==
  IF i > Len(m.listeners[type]) THEN m
  ELSE DeliverLive(RunHandler(m, m.listeners[type][i], type, detail),
                   hs, i + 1, type, detail)

\* The dispatch runs over the listeners registered when it started, and
\* skips one that has been removed by the time its turn comes.
RECURSIVE Deliver(_, _, _, _, _)
Deliver(m, hs, i, type, detail) ==
  IF i > Len(hs) THEN m
  ELSE IF hs[i] \notin Range(m.listeners[type])
    THEN Deliver(m, hs, i + 1, type, detail)
  ELSE Deliver(RunHandler(m, hs[i], type, detail), hs, i + 1, type, detail)

\* dispatchEvent gone wrong: the listener registered last is called first.
dispatchEventReversed(m, type, detail) ==
  LET hs == m.listeners[type] IN
    Deliver(Log(m, [t |-> "dispatchEvent", type |-> type, detail |-> detail]),
            [i \in 1..Len(hs) |-> hs[Len(hs) + 1 - i]], 1, type, detail)

\* window.dispatchEvent(new CustomEvent(type, {detail})): the listeners of
\* that type registered when the dispatch starts, in registration order.
dispatchEvent(m, type, detail) ==
  Deliver(Log(m, [t |-> "dispatchEvent", type |-> type, detail |-> detail]),
          m.listeners[type], 1, type, detail)

(************************** vendor routines ********************************)

\* The routine of vendor v has been called.
Called(m, v) == Log(m, [t |-> "init", v |-> v])

\* A script element of vendor v is created and put into the document.
InjectScript(m, v) ==
  Log([m EXCEPT !.scripts[v] = @ + 1], [t |-> "script", v |-> v])

SetGlobal(m, g) == [m EXCEPT !.globals = @ \cup {g}]

\* A routine that returns when window[g] is set, and otherwise sets it and
\* injects the vendor's script.
InitByOwnGlobal(m0, v, g) ==
  LET m == Called(m0, v) IN
    IF g \in m.globals THEN m ELSE InjectScript(SetGlobal(m, g), v)

\* A routine that returns when window[g] is set, and otherwise injects the
\* vendor's script without setting window[g]: only the loaded script sets it.
InitByLoadedGlobal(m0, v, g) ==
  LET m == Called(m0, v) IN
    IF g \in m.globals THEN m ELSE InjectScript(m, v)

\* A routine that returns when document.querySelector finds the vendor's
\* script element.
InitByScriptTag(m0, v) ==
  LET m == Called(m0, v) IN
    IF m.scripts[v] > 0 THEN m ELSE InjectScript(m, v)

initGoogleAnalytics(m0) ==
  LET m == Called(m0, "googleAnalytics") IN
    IF m.scripts["googleAnalytics"] > 0 THEN m
    ELSE SetGlobal(SetGlobal(InjectScript(m, "googleAnalytics"), "dataLayer"),
                   "gtag")

initGoogleTagManager(m0) ==
  LET m == Called(m0, "googleTagManager") IN
    IF m.scripts["googleTagManager"] > 0 THEN m
    ELSE InjectScript(SetGlobal(m, "dataLayer"), "googleTagManager")

initGoogleAds(m0) ==
  LET m == Called(m0, "googleAds") IN
    IF "gtag" \in m.globals
      THEN Log([m EXCEPT !.adsConfigured = TRUE], [t |-> "gtagConfig"])
      ELSE m

initFacebookPixel(m) == InitByOwnGlobal(m, "facebookPixel", "fbq")
initHotjar(m) == InitByOwnGlobal(m, "hotjar", "hj")
initClarity(m) == InitByLoadedGlobal(m, "clarity", "clarity")
initSegment(m) == InitByLoadedGlobal(m, "segment", "analytics")
initMixpanel(m) == InitByLoadedGlobal(m, "mixpanel", "mixpanel")
initAmplitude(m) == InitByLoadedGlobal(m, "amplitude", "amplitude")
initHubspot(m) == InitByScriptTag(m, "hubspot")
initIntercom(m) == InitByLoadedGlobal(m, "intercom", "Intercom")
initCrisp(m) == InitByOwnGlobal(m, "crisp", "$crisp")
initTiktokPixel(m) == InitByOwnGlobal(m, "tiktokPixel", "ttq")
initLinkedinInsight(m) ==
  InitByOwnGlobal(m, "linkedinInsight", "_linkedin_data_partner_ids")
initPinterestTag(m) == InitByOwnGlobal(m, "pinterestTag", "pintrk")
initSnapchatPixel(m) == InitByOwnGlobal(m, "snapchatPixel", "snaptr")
initTwitterPixel(m) == InitByOwnGlobal(m, "twitter", "twq")

InitVendor(m, v) ==
  CASE v = "googleAnalytics" -> initGoogleAnalytics(m)
    [] v = "googleTagManager" -> initGoogleTagManager(m)
    [] v = "segment" -> initSegment(m)
    [] v = "mixpanel" -> initMixpanel(m)
    [] v = "amplitude" -> initAmplitude(m)
    [] v = "googleAds" -> initGoogleAds(m)
    [] v = "facebookPixel" -> initFacebookPixel(m)
    [] v = "tiktokPixel" -> initTiktokPixel(m)
    [] v = "linkedinInsight" -> initLinkedinInsight(m)
    [] v = "pinterestTag" -> initPinterestTag(m)
    [] v = "snapchatPixel" -> initSnapchatPixel(m)
    [] v = "twitter" -> initTwitterPixel(m)
    [] v = "hotjar" -> initHotjar(m)
    [] v = "clarity" -> initClarity(m)
    [] v = "hubspot" -> initHubspot(m)
    [] v = "intercom" -> initIntercom(m)
    [] v = "crisp" -> initCrisp(m)

\* The call gone wrong: the routine is called whether or not a token is given.
CallAlways(m, v) == InitVendor(m, v)

\* if (integrations.<v>) init<V>(integrations.<v>)
CallIfConfigured(m, v) ==
  IF v \in config.integrations THEN InitVendor(m, v) ELSE m

\* The statements of one block of initializeIntegrations, in their order.
RECURSIVE InitGroup(_, _, _)
InitGroup(m, group, i) ==
  IF i > Len(group) THEN m
  ELSE InitGroup(CallIfConfigured(m, group[i]), group, i + 1)

\* initializeIntegrations gone wrong: the analytics block is not gated.
initializeIntegrationsUngated(m, preferences) ==
  LET a == InitGroup(m, AnalyticsVendors, 1)
      b == IF Truthy(preferences, "marketing")
             THEN InitGroup(a, MarketingVendors, 1) ELSE a
      c == IF Truthy(preferences, "performance")
             THEN InitGroup(b, PerformanceVendors, 1) ELSE b
  IN  IF Truthy(preferences, "functional")
        THEN InitGroup(c, FunctionalVendors, 1) ELSE c

\* initializeIntegrations gone wrong: the marketing block runs before the
\* analytics block.
initializeIntegrationsMarketingFirst(m, preferences) ==
  LET a == IF Truthy(preferences, "marketing")
             THEN InitGroup(m, MarketingVendors, 1) ELSE m
      b == IF Truthy(preferences, "analytics")
             THEN InitGroup(a, AnalyticsVendors, 1) ELSE a
      c == IF Truthy(preferences, "performance")
             THEN InitGroup(b, PerformanceVendors, 1) ELSE b
  IN  IF Truthy(preferences, "functional")
        THEN InitGroup(c, FunctionalVendors, 1) ELSE c

\* initializeIntegrations gone wrong: the scripts of the analytics vendors are
\* taken out of the document when analytics is not granted.
initializeIntegrationsRevoking(m, preferences) ==
  LET a == IF Truthy(preferences, "analytics")
             THEN InitGroup(m, AnalyticsVendors, 1)
             ELSE [m EXCEPT !.scripts =
                     [v \in Vendors |-> IF v \in Range(AnalyticsVendors)
                                          THEN 0 ELSE @[v]]]
      b == IF Truthy(preferences, "marketing")
             THEN InitGroup(a, MarketingVendors, 1) ELSE a
      c == IF Truthy(preferences, "performance")
             THEN InitGroup(b, PerformanceVendors, 1) ELSE b
  IN  IF Truthy(preferences, "functional")
        THEN InitGroup(c, FunctionalVendors, 1) ELSE c

initializeIntegrations(m, preferences) ==
  LET a == IF Truthy(preferences, "analytics")
             THEN InitGroup(m, AnalyticsVendors, 1) ELSE m
      b == IF Truthy(preferences, "marketing")
             THEN InitGroup(a, MarketingVendors, 1) ELSE a
      c == IF Truthy(preferences, "performance")
             THEN InitGroup(b, PerformanceVendors, 1) ELSE b
  IN  IF Truthy(preferences, "functional")
        THEN InitGroup(c, FunctionalVendors, 1) ELSE c

(***************************** the facade **********************************)

\* saveConsent gone wrong: the event is dispatched before the record is
\* written.
saveConsentNotifyFirst(m, preferences) ==
  LET data == [preferences |-> preferences, timestamp |-> now,
               version |-> ConsentVersion]
      told == dispatchEvent(m, "cookieConsentUpdate", data)
      written == setItem(told, JSONstringify(data))
      started == initializeIntegrations(written, preferences)
  IN  IF config.onConsentGiven
        THEN Log(started, [t |-> "onConsentGiven", preferences |-> preferences])
        ELSE started

\* resetConsent gone wrong: the event is dispatched and the callback called,
\* but the record is left in storage.
resetConsentKeepRecord(m) ==
  LET told == dispatchEvent(m, "cookieConsentReset", Null)
  IN  IF config.onConsentRevoked
        THEN Log(told, [t |-> "onConsentRevoked"])
        ELSE told

\* saveConsent gone wrong: onConsentGiven is called before the vendor
\* routines run.
saveConsentGivenFirst(m, preferences) ==
  LET data == [preferences |-> preferences, timestamp |-> now,
               version |-> ConsentVersion]
      written == setItem(m, JSONstringify(data))
      told == dispatchEvent(written, "cookieConsentUpdate", data)
      given == IF config.onConsentGiven
                 THEN Log(told, [t |-> "onConsentGiven",
                                 preferences |-> preferences])
                 ELSE told
  IN  IF written.raised THEN written
      ELSE initializeIntegrations(given, preferences)

\* saveConsent: nothing where there is no window; no try encloses the
\* setItem, so that when it raises the call is left there.
saveConsent(m, preferences) ==
  LET data == [preferences |-> preferences, timestamp |-> now,
               version |-> ConsentVersion]
      written == setItem(m, JSONstringify(data))
      told == dispatchEvent(written, "cookieConsentUpdate", data)
      started == initializeIntegrations(told, preferences)
  IN  IF ~window THEN m
      ELSE IF written.raised THEN written
      ELSE IF config.onConsentGiven
        THEN Log(started, [t |-> "onConsentGiven", preferences |-> preferences])
        ELSE started

\* resetConsent gone wrong: it does not look whether there is a window.
resetConsentAnywhere(m) ==
  LET removed == removeItem(m)
      told == dispatchEvent(removed, "cookieConsentReset", Null)
  IN  IF removed.raised THEN removed
      ELSE IF config.onConsentRevoked
        THEN Log(told, [t |-> "onConsentRevoked"])
        ELSE told

\* resetConsent: nothing where there is no window; no try encloses the
\* removeItem.
resetConsent(m) ==
  LET removed == removeItem(m)
      told == dispatchEvent(removed, "cookieConsentReset", Null)
  IN  IF ~window THEN m
      ELSE IF removed.raised THEN removed
      ELSE IF config.onConsentRevoked
        THEN Log(told, [t |-> "onConsentRevoked"])
        ELSE told

\* hasConsent: getConsent() !== null
hasConsent(m) ==
  LET r == getConsent(m) IN [m |-> r.m, ret |-> r.ret # Null]

\* hasConsentFor: consent?.preferences[category] === true.  The ?. guards
\* against a null consent only: indexing the preferences of an object that
\* has none raises.
hasConsentFor(m, category) ==
  LET r == getConsent(m) IN
    IF r.ret = Null THEN [m |-> r.m, ret |-> FALSE]
    ELSE IF "preferences" \notin DOMAIN r.ret
      THEN [m |-> Raise(r.m, "hasConsentFor"), ret |-> Undefined]
    ELSE [m |-> r.m, ret |-> Truthy(r.ret.preferences, category)]

\* getDefaultPreferences: a copy of defaultPreferences.
getDefaultPreferences == defaultPreferences

\* The preferences the hook reports once mounted: the stored ones, or else
\* getDefaultPreferences().
getPreferences(m) ==
  LET r == getConsent(m) IN
    IF r.ret = Null THEN getDefaultPreferences ELSE PreferencesOf(r.ret)

\* acceptAll gone wrong: each key gets the category's required flag.
allAcceptedRequiredOnly ==
  [k \in {getCategories[i].key : i \in 1..Len(getCategories)} |->
     k \in RequiredKeys]

\* declineOptional gone wrong: only the essential key is granted, whatever
\* the categories' required flags say.
essentialOnlyByName ==
  [k \in {getCategories[i].key : i \in 1..Len(getCategories)} |->
     k = "essential"]

\* The hook's acceptAll and declineOptional build their argument from
\* getCategories().
allAccepted ==
  [k \in {getCategories[i].key : i \in 1..Len(getCategories)} |-> TRUE]

essentialOnly ==
  [k \in {getCategories[i].key : i \in 1..Len(getCategories)} |->
     k \in RequiredKeys]

(****************************** the hooks **********************************)

\* onConsentChange gone wrong: the new handler is called at once with the
\* record that is stored.
onConsentChangeReplaying(m, h) ==
  LET r == getConsent(m) IN
    IF r.ret = Null THEN addListener(m, h)
    ELSE RunHandler(addListener(m, h), h, "cookieConsentUpdate", r.ret)

\* onConsentChange(callback): the callback is wrapped in a handler, which is
\* added to the listeners of cookieConsentUpdate.
onConsentChange(m, h) == addListener(m, h)

\* useCookieConsent in slot i: the first render and the mount effect, which
\* reads the store, sets the state and subscribes.
useCookieConsent(m, i) ==
  LET r == getConsent(m)
      state == IF r.ret # Null
                 THEN [kind |-> "useCookieConsent",
                       preferences |-> PreferencesOf(r.ret),
                       hasConsent |-> TRUE, isLoaded |-> TRUE]
                 ELSE [kind |-> "useCookieConsent",
                       preferences |-> getDefaultPreferences,
                       hasConsent |-> FALSE, isLoaded |-> TRUE]
  IN  [m |-> addListener([r.m EXCEPT !.hooks[i] = state],
                         [id |-> i, kind |-> "useCookieConsent"]),
       ret |-> r.ret]

\* useConsentFor(category) in slot i: the first render and the effect.
useConsentFor(m, i, category) ==
  LET r == hasConsentFor(m, category)
      state == [kind |-> "useConsentFor", category |-> category,
                granted |-> Boolean(r.ret)]
  IN  IF r.m.raised THEN r
      ELSE [m |-> addListener([r.m EXCEPT !.hooks[i] = state],
                              [id |-> i, kind |-> "useConsentFor"]),
            ret |-> r.ret]

\* The effect's cleanup when the component in slot i goes away.
unmount(m, i) ==
  [removeListener(m, [id |-> i, kind |-> m.hooks[i].kind])
     EXCEPT !.hooks[i] = NoHook]

\* updatePreferences of the hook in slot i.
updatePreferences(m, i, newPreferences) ==
  LET saved == saveConsent(m, newPreferences) IN
    IF saved.raised THEN saved
    ELSE [saved EXCEPT !.hooks[i] = [@ EXCEPT !.preferences = newPreferences,
                                              !.hasConsent = TRUE]]

\* reset of the hook in slot i.
reset(m, i) ==
  LET cleared == resetConsent(m) IN
    IF cleared.raised THEN cleared
    ELSE [cleared EXCEPT !.hooks[i] =
            [@ EXCEPT !.preferences = getDefaultPreferences,
                      !.hasConsent = FALSE]]

(****************************** the banner *********************************)

\* CookieConsentBar in slot i, given the props categories and onConsentGiven:
\* its useCookieConsent, and its own state localPreferences.
CookieConsentBar(m, i, categoriesOverride) ==
  LET r == useCookieConsent(m, i)
      hook == r.m.hooks[i]
  IN  [m |-> [r.m EXCEPT !.hooks[i] =
                [kind |-> hook.kind, preferences |-> hook.preferences,
                 hasConsent |-> hook.hasConsent, isLoaded |-> hook.isLoaded,
                 bar |-> [categoriesOverride |-> categoriesOverride,
                          localPreferences |-> getDefaultPreferences]]],
       ret |-> r.ret]

\* const categories = categoriesOverride || defaultCategories, where
\* defaultCategories is the hook's getCategories().
BarCategories(m, i) ==
  IF m.hooks[i].bar.categoriesOverride.defined
    THEN m.hooks[i].bar.categoriesOverride.list
    ELSE getCategories

\* onConsentGiven?.(preferences), the statement after the hook's save: it is
\* not reached when the save has raised.
PropOnConsentGiven(m, preferences) ==
  IF m.raised THEN m
  ELSE Log(m, [t |-> "props.onConsentGiven", preferences |-> preferences])

handleAcceptAll(m, i) ==
  LET categories == BarCategories(m, i)
      barAllAccepted ==
        [k \in {categories[j].key : j \in 1..Len(categories)} |-> TRUE]
  IN  PropOnConsentGiven(updatePreferences(m, i, allAccepted), barAllAccepted)

handleDeclineOptional(m, i) ==
  LET categories == BarCategories(m, i)
      barEssentialOnly ==
        [k \in {categories[j].key : j \in 1..Len(categories)} |->
           \E j \in 1..Len(categories) :
             categories[j].key = k /\ categories[j].required]
  IN  PropOnConsentGiven(updatePreferences(m, i, essentialOnly),
                         barEssentialOnly)

handleSavePreferences(m, i) ==
  LET localPreferences == m.hooks[i].bar.localPreferences IN
    PropOnConsentGiven(updatePreferences(m, i, localPreferences),
                       localPreferences)

\* togglePreference: nothing for a key whose category in the banner's list is
\* required, and the key's value negated otherwise.
togglePreference(m, i, key) ==
  LET categories == BarCategories(m, i) IN
    IF \E j \in 1..Len(categories) :
         categories[j].key = key /\ categories[j].required
      THEN m
      ELSE LET prev == m.hooks[i].bar.localPreferences IN
             [m EXCEPT !.hooks[i].bar.localPreferences =
                [k \in DOMAIN prev \cup {key} |->
                   IF k = key THEN ~Truthy(prev, key) ELSE prev[k]]]

(****************************** inputs *************************************)

\* A preference set with every key, true on the keys of G.
Granting(G) == [k \in Keys |-> k \in G]

GoverningKeys == {"analytics", "marketing", "performance", "functional"}

\* The preference sets passed to saveConsent by a caller.
VendorPrefs ==
  {Granting({}), Granting({"essential"}), Granting({"essential", "analytics"}),
   Granting({"essential", "marketing"}),
   Granting({"essential", "analytics", "marketing"}),
   Granting({"essential", "performance"}),
   Granting({"essential", "functional"}), Granting(Keys)}

NotifierPrefs == {Granting({"essential"}), Granting({"essential", "analytics"})}

StorePrefs == {Granting({}), Granting({"essential", "analytics"}),
               Granting({"essential", "marketing", "personalization"})}

\* config.categories: not given, or a category list other than the default.
noCategories == [defined |-> FALSE, list |-> << >>]

customCategories ==
  [defined |-> TRUE,
   list |-> << [key |-> "essential", required |-> TRUE],
               [key |-> "analytics", required |-> TRUE],
               [key |-> "marketing", required |-> FALSE] >>]

Configs(versions, expiries, lists, integrations, callbacks) ==
  [consentVersion : versions, expireDays : expiries, categories : lists,
   integrations : integrations, onConsentGiven : callbacks,
   onConsentRevoked : callbacks]

StoreConfigs ==
  Configs({"", "2.0"}, 0..MaxExpireDays, {noCategories, customCategories},
          {{"googleAnalytics"}}, {TRUE})

VendorConfigs ==
  Configs({""}, {0}, {noCategories, customCategories},
          { {}, {"googleAds"}, {"googleAnalytics", "googleAds"},
            {"segment", "clarity", "hubspot"},
            {"facebookPixel", "hotjar", "amplitude", "intercom"} },
          {TRUE})

NotifierConfigs ==
  Configs({""}, {0}, {noCategories}, { {}, {"googleAnalytics", "googleAds"} },
          BOOLEAN)

HookConfigs ==
  Configs({"", "2.0"}, {0}, {noCategories, customCategories},
          { {}, {"clarity"} }, {TRUE})

\* The preference sets passed to updatePreferences and saveConsent beside
\* the hooks, and the categories useConsentFor is used with.
HookPrefs == {Granting({"essential"}),
              Granting({"essential", "analytics", "performance"})}

HookCategories == {"analytics", "functional"}

LifecycleConfigs ==
  Configs({"", "2.0"}, 0..MaxExpireDays, {noCategories}, { {"clarity"} },
          {TRUE})

LifecyclePrefs == {Granting({"essential", "performance"})}

DispatchConfigs ==
  Configs({""}, {0}, {noCategories}, { {"googleAnalytics"} }, {TRUE})

DispatchPrefs == {Granting({"essential"}), Granting({"essential", "analytics"})}

\* The callbacks that unsubscribe handlers while they run, beside one that
\* does not.
UnsubscribingKinds == {"reader", "once", "canceller"}

ReentryConfigs ==
  Configs({""}, {0}, {noCategories}, { {}, {"segment", "clarity"} }, {TRUE})

ReentryPrefs ==
  {Granting({"essential"}), Granting({"essential", "analytics"}),
   Granting({"essential", "analytics", "performance"})}

\* A callback that reads, and one that calls saveConsent.
ResavingKinds == {"reader", "resaver"}

ServerConfigs ==
  Configs({"", "2.0"}, {0}, {noCategories}, { {"clarity"} }, {TRUE})

ServerPrefs == {Granting({"essential"}), Granting({"essential", "performance"})}

BarConfigs ==
  Configs({""}, {0}, {noCategories, customCategories}, { {} }, {TRUE})

\* The categories prop of the banner: not given, or a list.
BarOverrides == {noCategories, customCategories}

\* The keys whose switches are clicked.
BarToggles == {"essential", "analytics", "marketing"}

FaultConfigs ==
  Configs({"", "2.0"}, 0..MaxExpireDays, {noCategories, customCategories},
          { {} }, {TRUE})

FaultPrefs == {Granting({"essential", "analytics"})}

\* The ways localStorage fails: not at all, on writing alone (the quota is
\* used up), or on every access (storage is denied).
FailureModes == { {}, {"setItem"}, {"getItem", "setItem", "removeItem"} }

\* What another program, or an earlier build of this one, has left under the
\* storage key.
ForeignTexts == {NoItem, Garbage, VersionOnly}

EventTypes == {"cookieConsentUpdate", "cookieConsentReset"}

\* The vendors whose handle on window is set by their script once it has run.
LoadedGlobal(v) ==
  CASE v = "clarity" -> "clarity"
    [] v = "segment" -> "analytics"
    [] v = "mixpanel" -> "mixpanel"
    [] v = "amplitude" -> "amplitude"
    [] v = "intercom" -> "Intercom"

LoadMarked == {"clarity", "segment", "mixpanel", "amplitude", "intercom"}

(****************************** actions ************************************)

Op(name, arg, ret, m) ==
  [name |-> name, arg |-> arg, ret |-> ret, log |-> m.log,
   subs |-> listeners["cookieConsentUpdate"], raised |-> m.raised]

Idle(name) ==
  [name |-> name, arg |-> Undefined, ret |-> Undefined, log |-> << >>,
   subs |-> << >>, raised |-> FALSE]

\* What a call leaves behind.
Commit(m) ==
  /\ \A v \in Vendors : m.scripts[v] <= MaxScripts
  /\ storage' = m.storage
  /\ scripts' = m.scripts
  /\ globals' = m.globals
  /\ adsConfigured' = m.adsConfigured
  /\ listeners' = m.listeners
  /\ hooks' = m.hooks

FreshPage ==
  /\ scripts = [v \in Vendors |-> 0]
  /\ globals = {}
  /\ adsConfigured = FALSE
  /\ listeners = [e \in EventTypes |-> << >>]
  /\ hooks = [i \in 1..MaxHooks |-> NoHook]
  /\ lastOp = Idle("load")

InitIn(cfgs) ==
  /\ config \in cfgs
  /\ storage \in {NoItem, Garbage}
  /\ now = 0
  /\ failing = {}
  /\ window = TRUE
  /\ FreshPage

\* A page load: a new window and document, initCookieConsent(userConfig);
\* localStorage and the clock go on.
PageLoad(userConfig) ==
  /\ config' = userConfig
  /\ scripts' = [v \in Vendors |-> 0]
  /\ globals' = {}
  /\ adsConfigured' = FALSE
  /\ listeners' = [e \in EventTypes |-> << >>]
  /\ hooks' = [i \in 1..MaxHooks |-> NoHook]
  /\ lastOp' = Idle("load")
  /\ window' = TRUE
  /\ UNCHANGED <<storage, now, failing>>

\* The module is loaded and configured where there is no window (a render on
\* the server): the browser's localStorage and clock go on, out of reach.
ServerLoad(userConfig) ==
  /\ config' = userConfig
  /\ scripts' = [v \in Vendors |-> 0]
  /\ globals' = {}
  /\ adsConfigured' = FALSE
  /\ listeners' = [e \in EventTypes |-> << >>]
  /\ hooks' = [i \in 1..MaxHooks |-> NoHook]
  /\ lastOp' = Idle("serverLoad")
  /\ window' = FALSE
  /\ UNCHANGED <<storage, now, failing>>

\* Time passes between two calls, half a day at a time.
Tick ==
  /\ now < MaxTicks * TickMs
  /\ now' = now + TickMs
  /\ lastOp' = Idle("tick")
  /\ UNCHANGED <<config, storage, scripts, globals, adsConfigured, listeners,
                 hooks, failing, window>>

\* The script a vendor routine injected has loaded and set its handle.
ScriptLoaded(v) ==
  /\ v \in LoadMarked
  /\ scripts[v] > 0
  /\ LoadedGlobal(v) \notin globals
  /\ globals' = globals \cup {LoadedGlobal(v)}
  /\ lastOp' = Idle("scriptLoaded")
  /\ UNCHANGED <<config, storage, now, scripts, adsConfigured, listeners,
                 hooks, failing, window>>

SaveConsent(preferences) ==
  LET m == saveConsent(Machine, preferences) IN
    /\ Commit(m)
    /\ lastOp' = Op("saveConsent", preferences, Undefined, m)
    /\ UNCHANGED <<config, now, failing, window>>

AcceptAll ==
  LET m == saveConsent(Machine, allAccepted) IN
    /\ Commit(m)
    /\ lastOp' = Op("acceptAll", allAccepted, Undefined, m)
    /\ UNCHANGED <<config, now, failing, window>>

DeclineOptional ==
  LET m == saveConsent(Machine, essentialOnly) IN
    /\ Commit(m)
    /\ lastOp' = Op("declineOptional", essentialOnly, Undefined, m)
    /\ UNCHANGED <<config, now, failing, window>>

ResetConsent ==
  LET m == resetConsent(Machine) IN
    /\ Commit(m)
    /\ lastOp' = Op("resetConsent", Undefined, Undefined, m)
    /\ UNCHANGED <<config, now, failing, window>>

GetConsent ==
  LET r == getConsent(Machine) IN
    /\ Commit(r.m)
    /\ lastOp' = Op("getConsent", Undefined, r.ret, r.m)
    /\ UNCHANGED <<config, now, failing, window>>

HasConsent ==
  LET r == hasConsent(Machine) IN
    /\ Commit(r.m)
    /\ lastOp' = Op("hasConsent", Undefined, r.ret, r.m)
    /\ UNCHANGED <<config, now, failing, window>>

HasConsentFor(category) ==
  LET r == hasConsentFor(Machine, category) IN
    /\ Commit(r.m)
    /\ lastOp' = Op("hasConsentFor", category, r.ret, r.m)
    /\ UNCHANGED <<config, now, failing, window>>

\* onConsentChange(callback): one more listener of cookieConsentUpdate.
Subscribe(kind) ==
  /\ Len(listeners["cookieConsentUpdate"]) < MaxSubs
  /\ LET used == {h.id : h \in Range(listeners["cookieConsentUpdate"])}
         id == CHOOSE i \in 1..MaxSubs :
                 i \notin used /\ \A j \in 1..MaxSubs : j \notin used => i <= j
         m == onConsentChange(Machine, [id |-> id, kind |-> kind])
     IN  /\ Commit(m)
         /\ lastOp' = Op("onConsentChange", id, Undefined, m)
  /\ UNCHANGED <<config, now, failing, window>>

OnConsentChange == Subscribe("reader")

\* The function onConsentChange returned is called: removeEventListener.
Unsubscribe(id) ==
  /\ \E h \in Range(listeners["cookieConsentUpdate"]) : h.id = id
  /\ listeners' = [listeners EXCEPT !["cookieConsentUpdate"] =
                     SelectSeq(@, LAMBDA h : h.id # id)]
  /\ lastOp' = [Idle("unsubscribe") EXCEPT !.arg = id]
  /\ UNCHANGED <<config, storage, now, scripts, globals, adsConfigured, hooks,
                 failing, window>>

\* localStorage starts or stops failing between two calls.
StorageFails(ops) ==
  /\ failing # ops
  /\ failing' = ops
  /\ lastOp' = Idle("storageFails")
  /\ UNCHANGED <<config, storage, now, scripts, globals, adsConfigured,
                 listeners, hooks, window>>

\* A component that uses useCookieConsent is mounted in a free slot.
MountCookieConsent(i) ==
  /\ hooks[i] = NoHook
  /\ LET r == useCookieConsent(Machine, i) IN
       /\ Commit(r.m)
       /\ lastOp' = Op("useCookieConsent", i, r.ret, r.m)
  /\ UNCHANGED <<config, now, failing, window>>

\* A component that uses useConsentFor(category) is mounted in a free slot.
MountConsentFor(i, category) ==
  /\ hooks[i] = NoHook
  /\ LET r == useConsentFor(Machine, i, category) IN
       /\ Commit(r.m)
       /\ lastOp' = Op("useConsentFor", i, r.ret, r.m)
  /\ UNCHANGED <<config, now, failing, window>>

Unmount(i) ==
  /\ hooks[i] # NoHook
  /\ LET m == unmount(Machine, i) IN
       /\ Commit(m)
       /\ lastOp' = Op("unmount", i, Undefined, m)
  /\ UNCHANGED <<config, now, failing, window>>

\* A call of a function that the useCookieConsent mounted in slot i returned.
HookCall(i, name, arg, m) ==
  /\ hooks[i].kind = "useCookieConsent"
  /\ Commit(m)
  /\ lastOp' = Op(name, arg, Undefined, m)
  /\ UNCHANGED <<config, now, failing, window>>

UpdatePreferences(i, newPreferences) ==
  HookCall(i, "updatePreferences", newPreferences,
           updatePreferences(Machine, i, newPreferences))

HookAcceptAll(i) ==
  HookCall(i, "acceptAll", allAccepted,
           updatePreferences(Machine, i, allAccepted))

HookDeclineOptional(i) ==
  HookCall(i, "declineOptional", essentialOnly,
           updatePreferences(Machine, i, essentialOnly))

HookReset(i) == HookCall(i, "reset", Undefined, reset(Machine, i))

\* A CookieConsentBar is mounted in a free slot.
MountBar(i, categoriesOverride) ==
  /\ hooks[i] = NoHook
  /\ LET r == CookieConsentBar(Machine, i, categoriesOverride) IN
       /\ Commit(r.m)
       /\ lastOp' = Op("CookieConsentBar", i, r.ret, r.m)
  /\ UNCHANGED <<config, now, failing, window>>

\* A click in the banner mounted in slot i, which is rendered only while its
\* hook reports no consent.
BarClick(i, name, m) ==
  /\ "bar" \in DOMAIN hooks[i]
  /\ ~hooks[i].hasConsent
  /\ \E after \in {m} :
       /\ Commit(after)
       /\ lastOp' = Op(name, i, Undefined, after)
  /\ UNCHANGED <<config, now, failing, window>>

HandleAcceptAll(i) == BarClick(i, "handleAcceptAll", handleAcceptAll(Machine, i))

HandleDeclineOptional(i) ==
  BarClick(i, "handleDeclineOptional", handleDeclineOptional(Machine, i))

HandleSavePreferences(i) ==
  BarClick(i, "handleSavePreferences", handleSavePreferences(Machine, i))

TogglePreference(i, key) ==
  BarClick(i, "togglePreference", togglePreference(Machine, i, key))

Saves(prefs) ==
  \/ \E p \in prefs : SaveConsent(p)
  \/ AcceptAll
  \/ DeclineOptional

Reads ==
  \/ GetConsent
  \/ HasConsent
  \/ \E k \in Keys : HasConsentFor(k)

\* The record's life: page loads under changing version, expiry and category
\* list, the clock, saves, reads and resets.
Init == InitIn(StoreConfigs)

Next ==
  \/ \E c \in StoreConfigs : PageLoad(c)
  \/ Tick
  \/ Saves(StorePrefs)
  \/ ResetConsent
  \/ Reads

Spec == Init /\ [][Next]_vars

\* The dispatcher: page loads under changing integrations, saves, resets and
\* the loading of injected scripts.
InitVendors == InitIn(VendorConfigs)

NextVendors ==
  \/ \E c \in VendorConfigs : PageLoad(c)
  \/ \E v \in Vendors : ScriptLoaded(v)
  \/ Saves(VendorPrefs)
  \/ ResetConsent

SpecVendors == InitVendors /\ [][NextVendors]_vars

\* The notifier: subscriptions, and the saves, resets and reads that run
\* while handlers are subscribed.
InitNotifier == InitIn(NotifierConfigs)

NextNotifier ==
  \/ \E c \in NotifierConfigs : PageLoad(c)
  \/ OnConsentChange
  \/ \E id \in 1..MaxSubs : Unsubscribe(id)
  \/ Saves(NotifierPrefs)
  \/ ResetConsent
  \/ GetConsent

SpecNotifier == InitNotifier /\ [][NextNotifier]_vars

\* The record's life beside everything else the library does: subscribing
\* and unsubscribing, scripts loading, reads, the clock and page loads.
InitLifecycle == InitIn(LifecycleConfigs)

NextLifecycle ==
  \/ \E c \in LifecycleConfigs : PageLoad(c)
  \/ Tick
  \/ \E v \in Vendors : ScriptLoaded(v)
  \/ OnConsentChange
  \/ \E id \in 1..MaxSubs : Unsubscribe(id)
  \/ \E p \in LifecyclePrefs : SaveConsent(p)
  \/ ResetConsent
  \/ GetConsent
  \/ HasConsent
  \/ HasConsentFor("performance")

SpecLifecycle == InitLifecycle /\ [][NextLifecycle]_vars

\* The dispatch: handlers that unsubscribe themselves or the others while an
\* event is being delivered.
InitDispatch == InitIn(DispatchConfigs)

NextDispatch ==
  \/ \E c \in DispatchConfigs : PageLoad(c)
  \/ \E kind \in UnsubscribingKinds : Subscribe(kind)
  \/ \E id \in 1..MaxSubs : Unsubscribe(id)
  \/ \E p \in DispatchPrefs : SaveConsent(p)
  \/ ResetConsent

SpecDispatch == InitDispatch /\ [][NextDispatch]_vars

\* The re-entry: handlers that call saveConsent while a save is dispatching.
InitReentry == InitIn(ReentryConfigs)

NextReentry ==
  \/ \E c \in ReentryConfigs : PageLoad(c)
  \/ \E kind \in ResavingKinds : Subscribe(kind)
  \/ \E id \in 1..MaxSubs : Unsubscribe(id)
  \/ \E p \in ReentryPrefs : SaveConsent(p)
  \/ ResetConsent

SpecReentry == InitReentry /\ [][NextReentry]_vars

\* The library where there is no window: the module is loaded on the server
\* between page loads in the browser, and its functions are called there.
InitServer == InitIn(ServerConfigs)

NextServer ==
  \/ \E c \in ServerConfigs : PageLoad(c)
  \/ \E c \in ServerConfigs : ServerLoad(c)
  \/ \E p \in ServerPrefs : SaveConsent(p)
  \/ AcceptAll
  \/ ResetConsent
  \/ GetConsent
  \/ HasConsent
  \/ HasConsentFor("performance")

SpecServer == InitServer /\ [][NextServer]_vars

\* The banner: it is mounted with or without a categories prop, its
\* switches and buttons are clicked, and consent is reset beside it.
InitBar == InitIn(BarConfigs)

NextBar ==
  \/ \E c \in BarConfigs : PageLoad(c)
  \/ \E i \in 1..MaxHooks : \E o \in BarOverrides : MountBar(i, o)
  \/ \E i \in 1..MaxHooks : Unmount(i)
  \/ \E i \in 1..MaxHooks : \E k \in BarToggles : TogglePreference(i, k)
  \/ \E i \in 1..MaxHooks : HandleAcceptAll(i)
  \/ \E i \in 1..MaxHooks : HandleDeclineOptional(i)
  \/ \E i \in 1..MaxHooks : HandleSavePreferences(i)
  \/ ResetConsent

SpecBar == InitBar /\ [][NextBar]_vars

\* The faults: localStorage raises, or holds a text this build did not write.
InitFaults ==
  /\ config \in FaultConfigs
  /\ storage \in ForeignTexts
  /\ now = 0
  /\ failing \in FailureModes
  /\ window = TRUE
  /\ FreshPage

NextFaults ==
  \/ \E c \in FaultConfigs : PageLoad(c)
  \/ \E ops \in FailureModes : StorageFails(ops)
  \/ Tick
  \/ Saves(FaultPrefs)
  \/ ResetConsent
  \/ Reads

SpecFaults == InitFaults /\ [][NextFaults]_vars

\* The hooks: components mount and unmount, call what their hook returned,
\* and the library is called beside them.
InitHooks == InitIn(HookConfigs)

NextHooks ==
  \/ \E c \in HookConfigs : PageLoad(c)
  \/ \E i \in 1..MaxHooks : MountCookieConsent(i)
  \/ \E i \in 1..MaxHooks : \E k \in HookCategories : MountConsentFor(i, k)
  \/ \E i \in 1..MaxHooks : Unmount(i)
  \/ \E i \in 1..MaxHooks : \E p \in HookPrefs : UpdatePreferences(i, p)
  \/ \E i \in 1..MaxHooks : HookAcceptAll(i)
  \/ \E i \in 1..MaxHooks : HookDeclineOptional(i)
  \/ \E i \in 1..MaxHooks : HookReset(i)
  \/ \E p \in HookPrefs : SaveConsent(p)
  \/ ResetConsent

SpecHooks == InitHooks /\ [][NextHooks]_vars

(***************************** properties **********************************)

SaveNames == {"saveConsent", "acceptAll", "declineOptional"}
ReadNames == {"getConsent", "hasConsent", "hasConsentFor"}

\* The vendor's script is in the document or its handle has been used.
Active(v) == scripts[v] > 0 \/ (v = "googleAds" /\ adsConfigured)

\* The positions of the log of the last call whose entry is of a kind in ts.
At(ts) == {i \in 1..Len(lastOp.log) : lastOp.log[i].t \in ts}

\* What the read that has just returned found in storage.
Found == lastOp.log[1].value

\* The read that has just returned reported no consent.
ReportedAbsent ==
  IF lastOp.name = "getConsent" THEN lastOp.ret = Null ELSE lastOp.ret = FALSE

\* The read that has just returned reported the record of the text found.
ReportedPresent ==
  CASE lastOp.name = "getConsent" -> lastOp.ret = JSONparse(Found)
    [] lastOp.name = "hasConsent" -> lastOp.ret = TRUE
    [] lastOp.name = "hasConsentFor" ->
         lastOp.ret = (<<lastOp.arg, TRUE>> \in Found.entries)

\* C2: a save of a preference set in which every required category is true,
\* whatever was stored before, is followed by a read that finds a record and
\* returns exactly that preference set.
C2_SaveReadRoundTrip ==
  (lastOp.name \in SaveNames /\ \A k \in RequiredKeys : Truthy(lastOp.arg, k))
    => /\ hasConsent(Machine).ret
       /\ getPreferences(Machine) = lastOp.arg

C2_Witness ==
  /\ lastOp.name = "saveConsent"
  /\ lastOp.arg = Granting({"essential", "marketing", "personalization"})
  /\ config.expireDays > 0
  /\ config.consentVersion = "2.0"
  /\ now > 0

\* C3: a read that finds a record whose version is not the configured one
\* reports no consent (getConsent null, hasConsent false, hasConsentFor false
\* for the key asked) and leaves storage without the entry.
C3_VersionInvalidation ==
  (lastOp.name \in ReadNames /\ Found.tag = "json"
     /\ Found.version # ConsentVersion)
    => ReportedAbsent /\ storage = NoItem

C3_Witness ==
  /\ lastOp.name = "hasConsentFor"
  /\ Found.tag = "json"
  /\ Found.version # ConsentVersion
  /\ <<lastOp.arg, TRUE>> \in Found.entries
  /\ storage = NoItem

\* C4: with expireDays configured, a read that finds a record of the
\* configured version reports no consent and removes the entry when the
\* record is older than timestamp + expireDays, and otherwise reports the
\* record and leaves the entry as it was.
C4_Expiry ==
  (lastOp.name \in ReadNames /\ Found.tag = "json"
     /\ Found.version = ConsentVersion /\ config.expireDays > 0)
    => IF now > Found.timestamp + ExpireMs
         THEN ReportedAbsent /\ storage = NoItem
         ELSE ReportedPresent /\ storage = Found

C4_Witness ==
  /\ lastOp.name = "hasConsent"
  /\ Found.tag = "json"
  /\ Found.version = ConsentVersion
  /\ Found.entries = {<<k, TRUE>> : k \in Keys}
  /\ config.expireDays > 0
  /\ now > Found.timestamp + ExpireMs
  /\ lastOp.ret = FALSE
  /\ storage = NoItem

\* C5: after a save, the persisted record has every required category true,
\* also when the caller passed a required category as false.
C5_RequiredStayOn ==
  lastOp.name \in SaveNames
    => /\ storage.tag = "json"
       /\ \A k \in RequiredKeys : <<k, TRUE>> \in storage.entries

\* The step has put vendor v's script into the document, or used its handle,
\* for the first time in the page's life.
Activated(v) == ~Active(v) /\ Active(v)'

\* C1, as claimed: a vendor becomes active only in a save whose preference
\* set grants its governing category, and a declineOptional made while no
\* vendor is active leaves no vendor active.
C1_DeclineActivatesNone ==
  [][ /\ \A v \in Vendors :
           Activated(v) => /\ lastOp'.name \in SaveNames
                           /\ Truthy(lastOp'.arg, Governing(v))
      /\ (lastOp'.name = "declineOptional" /\ \A v \in Vendors : ~Active(v))
           => \A v \in Vendors : ~Active(v)' ]_vars

\* C1, amended: a vendor becomes active only in a save whose preference set
\* grants its governing category; no vendor is active when the page has
\* loaded, and a declineOptional activates no vendor whose governing category
\* is not configured as required.
C1_ConsentGating ==
  [][ /\ \A v \in Vendors :
           Activated(v) => /\ lastOp'.name \in SaveNames
                           /\ Truthy(lastOp'.arg, Governing(v))
      /\ lastOp'.name = "load" => \A v \in Vendors : ~Active(v)'
      /\ lastOp'.name = "declineOptional"
           => \A v \in Vendors : Activated(v) => Governing(v) \in RequiredKeys
    ]_vars

C1_Witness ==
  /\ lastOp.name = "declineOptional"
  /\ "analytics" \in RequiredKeys
  /\ At({"script"}) # {}
  /\ Active("googleAnalytics")
  /\ ~Active("googleAds")

\* C6: no vendor's script is injected more than once in a page's life.
C6_InjectedAtMostOnce == \A v \in Vendors : scripts[v] <= 1

\* C7: when a save has returned, every vendor that has a token and whose
\* governing category the saved preference set grants is active.
C7_ActivationComplete ==
  lastOp.name \in SaveNames
    => \A v \in config.integrations :
         Truthy(lastOp.arg, Governing(v)) => Active(v)

\* C8: a vendor without a token is not active, has no script in the
\* document, and the call that has just returned neither called its routine
\* nor injected its script.
C8_NoTokenNoAttempt ==
  \A v \in Vendors \ config.integrations :
    /\ ~Active(v)
    /\ scripts[v] = 0
    /\ \A i \in At({"init", "script"}) : lastOp.log[i].v # v

C8_Witness ==
  /\ lastOp.name \in SaveNames
  /\ Truthy(lastOp.arg, "analytics")
  /\ Truthy(lastOp.arg, "performance")
  /\ Truthy(lastOp.arg, "functional")
  /\ "googleAnalytics" \notin config.integrations
  /\ "hotjar" \notin config.integrations
  /\ Active("segment")
  /\ Active("clarity")
  /\ Active("hubspot")

\* C9: in a save, the record is written once, then the update event is
\* dispatched once, then the vendor routines run; every subscribed handler
\* has been called, and has read the new record from the store, before the
\* first routine, and every routine due has been called when the save
\* returns with the new record in storage.
C9_SaveOrder ==
  lastOp.name \in SaveNames
    => LET log == lastOp.log
           data == [preferences |-> lastOp.arg, timestamp |-> now,
                    version |-> ConsentVersion]
       IN  /\ Cardinality(At({"setItem"})) = 1
           /\ Cardinality(At({"dispatchEvent"})) = 1
           /\ \A w \in At({"setItem"}) : \A d \in At({"dispatchEvent"}) : w < d
           /\ \A d \in At({"dispatchEvent"}) :
                \A c \in At({"callback", "init", "script", "gtagConfig"}) : d < c
           /\ \A c \in At({"callback"}) :
                \A a \in At({"init", "script", "gtagConfig"}) : c < a
           /\ \A c \in At({"callback"}) : log[c].saw = data
           /\ Cardinality(At({"callback"})) = Len(lastOp.subs)
           /\ \A v \in config.integrations :
                Truthy(lastOp.arg, Governing(v))
                  => \E a \in At({"init"}) : log[a].v = v
           /\ storage = JSONstringify(data)

C9_Witness ==
  /\ lastOp.name = "saveConsent"
  /\ Len(lastOp.subs) = 2
  /\ At({"callback"}) # {}
  /\ At({"script"}) # {}
  /\ \E c \in At({"callback"}) :
       /\ lastOp.log[c].saw # Null
       /\ lastOp.log[c].saw.preferences = lastOp.arg

\* C10: after a reset no consent is reported, and every handler subscribed
\* before the reset has received exactly one reset event, with no payload.
C10_ResetDelivered ==
  lastOp.name = "resetConsent"
    => /\ ~hasConsent(Machine).ret
       /\ \A s \in 1..Len(lastOp.subs) :
            Cardinality({c \in At({"callback"}) :
                           /\ lastOp.log[c].h = lastOp.subs[s].id
                           /\ lastOp.log[c].type = "cookieConsentReset"
                           /\ lastOp.log[c].detail = Null}) = 1

\* The calls that save or reset, made through the library or through a hook.
ChangeNames == SaveNames \cup {"updatePreferences", "resetConsent", "reset"}

\* C11: when a save or a reset has returned, every mounted useCookieConsent
\* reports hasConsent as the store does, and every mounted useConsentFor(c)
\* reports what hasConsentFor(c) gives; so after a reset, made through any
\* hook or through the library, every mounted hook reports no consent.
C11_HooksInSync ==
  lastOp.name \in ChangeNames
    => \A i \in 1..MaxHooks :
         /\ hooks[i].kind = "useCookieConsent"
              => hooks[i].hasConsent = hasConsent(Machine).ret
         /\ hooks[i].kind = "useConsentFor"
              => (hooks[i].granted = Boolean(TRUE))
                   = hasConsentFor(Machine, hooks[i].category).ret

\* C12: the mount effect that runs when a page has loaded and finds a valid
\* record leaves every vendor active that has a token and whose governing
\* category the record grants.
C12_PageLoadActivation ==
  [][ (lastOp.name = "load" /\ lastOp'.name = "useCookieConsent"
         /\ lastOp'.ret # Null)
        => \A v \in config.integrations :
             Truthy(lastOp'.ret.preferences, Governing(v)) => Active(v)'
    ]_vars

\* C13: a read that finds a text that does not parse reports no consent and
\* leaves storage without the entry.
C13_MalformedRemoved ==
  (lastOp.name \in ReadNames /\ Found = Garbage)
    => ReportedAbsent /\ storage = NoItem

\* C14: while a localStorage method raises, every read, save and reset
\* returns without raising, and when every method raises no consent is
\* reported afterwards.
C14_NoFailureCrosses ==
  (lastOp.name \in ReadNames \cup SaveNames \cup {"resetConsent"}
     /\ failing # {})
    => /\ ~lastOp.raised
       /\ "getItem" \in failing => ~hasConsent(Machine).ret

\* The text holds a record of the configured version that has not expired.
Valid(text) ==
  /\ text.tag = "json"
  /\ text.version = ConsentVersion
  /\ ~(config.expireDays > 0 /\ now > text.timestamp + ExpireMs)

\* C15: hasConsentFor(key) does not raise; it returns false when what is
\* stored is not a valid record (nothing, a text that is not a record, a
\* record of another version or an expired one) or is a valid record without
\* the key, and the record's entry for the key otherwise.
C15_FailsClosed ==
  lastOp.name = "hasConsentFor"
    => /\ ~lastOp.raised
       /\ lastOp.ret = (Valid(Found) /\ <<lastOp.arg, TRUE>> \in Found.entries)

\* The keys of the configured categories.
ConfiguredKeys == {getCategories[i].key : i \in 1..Len(getCategories)}

\* C16: when acceptAll has returned, whatever was stored before,
\* hasConsentFor(k) is true for every configured category k.
C16_AcceptAllGrantsAll ==
  lastOp.name = "acceptAll"
    => \A k \in ConfiguredKeys : hasConsentFor(Machine, k).ret = TRUE

C16_Witness ==
  /\ lastOp.name = "acceptAll"
  /\ config.categories.defined
  /\ config.consentVersion = "2.0"
  /\ config.expireDays > 0
  /\ now > ExpireMs
  /\ hasConsentFor(Machine, "marketing").ret = TRUE
  /\ hasConsentFor(Machine, "functional").ret = FALSE

\* C17: when declineOptional has returned, whatever was stored before, the
\* preferences reported are true on exactly the required categories and
\* false on every other configured category.
C17_DeclineKeepsRequiredOnly ==
  lastOp.name = "declineOptional"
    => LET p == getPreferences(Machine) IN
         /\ \A k \in ConfiguredKeys : Lookup(p, k) = Boolean(k \in RequiredKeys)
         /\ \A k \in Keys \ ConfiguredKeys : ~Truthy(p, k)

C17_Witness ==
  /\ lastOp.name = "declineOptional"
  /\ RequiredKeys = {"essential", "analytics"}
  /\ Lookup(getPreferences(Machine), "analytics") = Boolean(TRUE)
  /\ Lookup(getPreferences(Machine), "marketing") = Boolean(FALSE)
  /\ now > 0

\* C18: the preferences reported are the stored ones when storage holds a
\* valid record, and otherwise the set that is true on exactly the categories
\* configured as required.
C18_StoredOrRequiredDefaults ==
  LET p == getPreferences(Machine) IN
    IF Valid(storage)
      THEN p = JSONparse(storage).preferences
      ELSE \A k \in Keys : Truthy(p, k) = (k \in RequiredKeys)

\* A consent record is stored.
Recorded(text) == text.tag = "json"

\* C19: a record comes to be stored only in a save, which stores exactly the
\* record of its argument whatever was stored; a stored record goes away
\* only in a reset, which leaves storage empty, or in a read that finds it
\* with another version or expired; every other step (a read of a valid
\* record, subscribing, unsubscribing, a script loading, the clock, a page
\* load) leaves what is stored as it was.
C19_RecordLifecycle ==
  [][ LET name == lastOp'.name
          purge == name \in ReadNames /\ Recorded(storage) /\ ~Valid(storage)
      IN  /\ (~Recorded(storage) /\ Recorded(storage')) => name \in SaveNames
          /\ (Recorded(storage) /\ ~Recorded(storage'))
               => name = "resetConsent" \/ purge
          /\ name \in SaveNames
               => storage' = JSONstringify([preferences |-> lastOp'.arg,
                                            timestamp |-> now,
                                            version |-> ConsentVersion])
          /\ name = "resetConsent" => storage' = NoItem
          /\ (name \notin SaveNames \cup {"resetConsent"} /\ ~purge)
               => storage' = storage
    ]_vars

C19_Witness ==
  /\ lastOp.name = "hasConsent"
  /\ Recorded(Found)
  /\ Found.version = ConsentVersion
  /\ storage = NoItem
  /\ Len(lastOp.subs) > 0
  /\ Active("clarity")

\* C20: within a page's life no step makes an active vendor inactive or
\* takes a script out of the document, a save that does not grant a category
\* included, and a reset leaves every vendor as active or inactive as it was.
C20_NoDeactivation ==
  [][ lastOp'.name # "load"
        => /\ \A v \in Vendors :
                /\ Active(v) => Active(v)'
                /\ scripts'[v] >= scripts[v]
           /\ lastOp'.name = "resetConsent"
                => \A v \in Vendors : Active(v)' = Active(v)
    ]_vars

C20_Witness ==
  /\ lastOp.name = "saveConsent"
  /\ ~Truthy(lastOp.arg, "analytics")
  /\ ~Truthy(lastOp.arg, "performance")
  /\ Active("segment")
  /\ Active("clarity")
  /\ storage.tag = "json"
  /\ <<"analytics", FALSE>> \in storage.entries

\* The entries of the last call's log whose kind is in ts, in their order.
Entries(ts) == SelectSeq(lastOp.log, LAMBDA e : e.t \in ts)

\* The record a save that has just returned was to persist.
SavedData ==
  [preferences |-> lastOp.arg, timestamp |-> now, version |-> ConsentVersion]

\* C21: when a save has returned, the handlers subscribed when it began have
\* each been called once, in the order in which they subscribed, each with
\* the update event whose payload is the record just persisted: the saved
\* preferences, the time of the save and the configured version.
C21_UpdateDelivery ==
  lastOp.name \in SaveNames
    => LET calls == Entries({"callback"}) IN
         /\ Len(calls) = Len(lastOp.subs)
         /\ \A s \in 1..Len(lastOp.subs) :
              /\ calls[s].h = lastOp.subs[s].id
              /\ calls[s].type = "cookieConsentUpdate"
              /\ calls[s].detail = SavedData
         /\ storage = JSONstringify(SavedData)

C21_Witness ==
  /\ lastOp.name = "saveConsent"
  /\ Len(lastOp.subs) = 2
  /\ lastOp.subs[1].id = 2
  /\ lastOp.subs[2].id = 1
  /\ Len(Entries({"callback"})) = 2
  /\ Entries({"callback"})[1].h = 2
  /\ Entries({"callback"})[1].detail.preferences
       = Granting({"essential", "analytics"})

\* C22: a call of onConsentChange calls no handler, whatever saves and
\* resets have been made before it; and every handler call made in a save or
\* a reset goes to a handler subscribed when that call began and carries
\* that call's own event: the record of this save, or nothing for a reset.
C22_NoReplay ==
  /\ lastOp.name = "onConsentChange" => Entries({"callback"}) = << >>
  /\ \A c \in At({"callback"}) :
       /\ \E s \in 1..Len(lastOp.subs) : lastOp.subs[s].id = lastOp.log[c].h
       /\ lastOp.name \in SaveNames
       /\ lastOp.log[c].detail = SavedData

C22_Witness ==
  /\ lastOp.name = "onConsentChange"
  /\ lastOp.arg = 2
  /\ Len(lastOp.subs) = 1
  /\ Len(listeners["cookieConsentUpdate"]) = 2
  /\ storage.tag = "json"
  /\ Active("googleAnalytics")

\* The number of times the last call entered the callback of handler h.
CallsOf(h) == Cardinality({c \in At({"callback"}) : lastOp.log[c].h = h.id})

C24_LastWriteWins ==
  [][ (lastOp.name \in SaveNames /\ lastOp'.name \in SaveNames)
        => /\ storage' = JSONstringify([preferences |-> lastOp'.arg,
                                        timestamp |-> now',
                                        version |-> ConsentVersion])
           /\ JSONparse(storage').preferences = lastOp'.arg
           /\ \A s \in 1..Len(lastOp.subs) :
                /\ \E c \in 1..Len(lastOp.log) :
                     /\ lastOp.log[c].t = "callback"
                     /\ lastOp.log[c].h = lastOp.subs[s].id
                     /\ lastOp.log[c].detail.preferences = lastOp.arg
                /\ \E c \in 1..Len(lastOp'.log) :
                     /\ lastOp'.log[c].t = "callback"
                     /\ lastOp'.log[c].h = lastOp.subs[s].id
                     /\ lastOp'.log[c].detail.preferences = lastOp'.arg
    ]_vars

C24_Witness ==
  /\ lastOp.name = "saveConsent"
  /\ lastOp.arg = Granting({"essential"})
  /\ Active("googleAnalytics")
  /\ Len(lastOp.subs) = 2
  /\ CallsOf(lastOp.subs[1]) = 1
  /\ CallsOf(lastOp.subs[2]) = 1
  /\ <<"analytics", FALSE>> \in storage.entries

\* C25: with both callbacks configured, a save calls onConsentGiven once,
\* with the preferences it persisted, as its last step: after the write, the
\* dispatch, every handler and every vendor routine; a reset calls
\* onConsentRevoked once, as its last step, after the removal and the
\* dispatch; no other call calls either of them, and a save calls no
\* onConsentRevoked and a reset no onConsentGiven.
C25_ConfiguredCallbacks ==
  LET log == lastOp.log
      given == At({"onConsentGiven"})
      revoked == At({"onConsentRevoked"})
  IN  /\ (lastOp.name \in SaveNames /\ config.onConsentGiven)
           => /\ given = {Len(log)}
              /\ revoked = {}
              /\ log[Len(log)].preferences = lastOp.arg
              /\ JSONparse(storage).preferences = lastOp.arg
              /\ Cardinality(At({"setItem"})) = 1
              /\ Cardinality(At({"dispatchEvent"})) = 1
      /\ (lastOp.name = "resetConsent" /\ config.onConsentRevoked)
           => /\ revoked = {Len(log)}
              /\ given = {}
              /\ Cardinality(At({"removeItem"})) = 1
              /\ Cardinality(At({"dispatchEvent"})) = 1
              /\ storage = NoItem
      /\ lastOp.name \notin SaveNames \cup {"resetConsent"}
           => given = {} /\ revoked = {}

C25_Witness ==
  /\ lastOp.name = "saveConsent"
  /\ Len(lastOp.subs) = 2
  /\ At({"script"}) # {}
  /\ At({"callback"}) # {}
  /\ lastOp.log[Len(lastOp.log)].t = "onConsentGiven"
  /\ now > 0

\* The place of a governing category in the order analytics, marketing,
\* performance, functional.
Place(k) ==
  CASE k = "analytics" -> 1
    [] k = "marketing" -> 2
    [] k = "performance" -> 3
    [] k = "functional" -> 4

\* C26: in a save, no vendor routine is called, and no script injected,
\* before one of a vendor of an earlier category; and every vendor that has
\* a token and whose category the save grants has had its routine called.
C26_CategoryOrder ==
  lastOp.name \in SaveNames
    => /\ \A i, j \in At({"init", "script"}) :
            i < j => Place(Governing(lastOp.log[i].v))
                       <= Place(Governing(lastOp.log[j].v))
       /\ \A v \in config.integrations :
            Truthy(lastOp.arg, Governing(v))
              => \E a \in At({"init"}) : lastOp.log[a].v = v

C26_Witness ==
  /\ lastOp.name = "saveConsent"
  /\ lastOp.arg = Granting(Keys)
  /\ config.integrations = {"facebookPixel", "hotjar", "amplitude", "intercom"}
  /\ Len(Entries({"init"})) = 4
  /\ Entries({"init"})[1].v = "amplitude"
  /\ Entries({"init"})[2].v = "facebookPixel"
  /\ Entries({"init"})[3].v = "hotjar"
  /\ Entries({"init"})[4].v = "intercom"
  /\ Len(Entries({"script"})) = 4

\* The step leaves the scripts, the handles and the listeners as they were.
PageUntouched ==
  /\ scripts' = scripts
  /\ globals' = globals
  /\ adsConfigured' = adsConfigured
  /\ listeners' = listeners

\* C27: a read that finds a record of another version, or an expired one,
\* removes it and does nothing else: it dispatches no event, calls no
\* handler and no configured callback, and leaves every vendor as it was.
C27_SilentInvalidation ==
  [][ (lastOp'.name \in ReadNames /\ Recorded(storage) /\ ~Valid(storage))
        => /\ storage' = NoItem
           /\ \A i \in 1..Len(lastOp'.log) :
                lastOp'.log[i].t \in {"getItem", "removeItem"}
           /\ PageUntouched
    ]_vars

C27_Witness ==
  /\ lastOp.name = "hasConsentFor"
  /\ Recorded(Found)
  /\ config.expireDays > 0
  /\ now > Found.timestamp + ExpireMs
  /\ <<"performance", TRUE>> \in Found.entries
  /\ lastOp.ret = FALSE
  /\ At({"removeItem"}) # {}
  /\ storage = NoItem
  /\ Len(lastOp.subs) = 2
  /\ Active("clarity")

\* C28: a read that finds a valid record reports it and leaves the stored
\* text, its timestamp included, as it was; it only reads the item:
\* it dispatches no event, calls no handler and no configured callback, and
\* leaves every vendor as it was.
C28_ValidReadsArePure ==
  [][ (lastOp'.name \in ReadNames /\ Recorded(storage) /\ Valid(storage))
        => /\ storage' = storage
           /\ lastOp'.log = << [t |-> "getItem", value |-> storage] >>
           /\ PageUntouched
           /\ lastOp'.name = "getConsent" => lastOp'.ret = JSONparse(storage)
           /\ lastOp'.name = "hasConsent" => lastOp'.ret = TRUE
    ]_vars

C28_Witness ==
  /\ lastOp.name = "getConsent"
  /\ lastOp.ret # Null
  /\ config.expireDays > 0
  /\ now = lastOp.ret.timestamp + ExpireMs
  /\ storage = Found
  /\ Len(lastOp.subs) > 0
  /\ Active("clarity")

\* C29: when a save during which a handler has called saveConsent has
\* returned, the preferences of the last call of onConsentGiven are those of
\* the record in storage, and every vendor whose script the call injected
\* has its governing category granted in a record that the call wrote.
C29_ReentrantSave ==
  (lastOp.name \in SaveNames /\ Cardinality(At({"setItem"})) > 1)
    => LET given == Entries({"onConsentGiven"}) IN
         /\ given[Len(given)].preferences = JSONparse(storage).preferences
         /\ \A i \in At({"script"}) :
              \E w \in At({"setItem"}) :
                <<Governing(lastOp.log[i].v), TRUE>>
                  \in lastOp.log[w].value.entries

\* The banner's buttons that save.
BarSaveNames ==
  {"handleAcceptAll", "handleDeclineOptional", "handleSavePreferences"}

\* C30: when a click on Accept All, Essential Only or Save Preferences has
\* returned, the prop onConsentGiven has been called once, with the
\* preference set that the click has left in storage, whatever categories
\* prop the banner was given.
C30_BarCallbackAgrees ==
  lastOp.name \in BarSaveNames
    => LET given == Entries({"props.onConsentGiven"}) IN
         /\ Len(given) = 1
         /\ storage.tag = "json"
         /\ given[1].preferences = JSONparse(storage).preferences

\* The calls of the library that read, write or remove the record.
StoreCallNames == SaveNames \cup ReadNames \cup {"resetConsent"}

\* C31: where there is no window, a call of saveConsent (acceptAll,
\* declineOptional), resetConsent or getConsent (hasConsent, hasConsentFor)
\* does nothing: storage, scripts, handles and listeners are as before, the
\* call's log is empty (no write, no removal, no event, no vendor routine,
\* no onConsentGiven, no onConsentRevoked), and a read reports no consent.
C31_NoWindowNoEffect ==
  [][(~window /\ lastOp'.name \in StoreCallNames)
       => /\ storage' = storage
          /\ scripts' = scripts
          /\ globals' = globals
          /\ adsConfigured' = adsConfigured
          /\ listeners' = listeners
          /\ lastOp'.log = << >>
          /\ ~lastOp'.raised
          /\ lastOp'.name = "getConsent" => lastOp'.ret = Null
          /\ lastOp'.name \in {"hasConsent", "hasConsentFor"}
               => lastOp'.ret = FALSE]_vars

\* A reset has been called where there is no window, while the browser's
\* storage holds a record and onConsentRevoked is configured.
C31_Witness ==
  /\ ~window
  /\ lastOp.name = "resetConsent"
  /\ storage.tag = "json"
  /\ config.onConsentRevoked

\* C32: a read that finds a record of the configured version reports the
\* record and removes nothing when expireDays is not configured (or is 0),
\* however old the record is, and when expireDays is configured and the
\* record's age is exactly expireDays days.
C32_ExpiryBoundary ==
  (/\ lastOp.name \in ReadNames
   /\ Found.tag = "json"
   /\ Found.version = ConsentVersion
   /\ \/ config.expireDays = 0
      \/ now - Found.timestamp = ExpireMs)
    => /\ ReportedPresent
       /\ At({"removeItem"}) = {}
       /\ storage = Found

\* A getConsent with expireDays configured has found a record whose age is
\* exactly the window, and has returned it.
C32_Witness ==
  /\ lastOp.name = "getConsent"
  /\ Found.tag = "json"
  /\ Found.version = ConsentVersion
  /\ config.expireDays > 0
  /\ now - Found.timestamp = ExpireMs
  /\ lastOp.ret = JSONparse(Found)
  /\ storage = Found

====
